---- MODULE Spec2Model ----
(***************************************************************************)
(* Relation metadata resolution (src/src/metadata/RelationMetadata.ts) and *)
(* the tree-parent decorator (src/src/decorator/tree/TreeParent.ts).       *)
(*                                                                         *)
(* One relation is followed through its life: it is declared (pushed to    *)
(* the args storage), constructed from its declaration, wired into a       *)
(* metadata graph of two entities, and then queried through its derived    *)
(* accessors.  JavaScript values are tagged records, so that undefined, a  *)
(* string, a boolean and an object stay distinguishable and truthiness is  *)
(* computed as the language computes it.                                   *)
(***************************************************************************)
EXTENDS Naturals, Sequences, FiniteSets, TLC

VARIABLES
    pc,       \* build phase: "gather", "declared", "constructed", "wired"
    args,     \* the RelationMetadataArgs held by the args storage
    rel,      \* the RelationMetadata instance
    result    \* the accessor called last on the wired relation, and its outcome

vars == <<pc, args, rel, result>>

(***************************************************************************)
(* JavaScript values                                                       *)
(***************************************************************************)
Undefined == [tag |-> "undefined"]

Str(s) == [tag |-> "string", str |-> s]

Bool(b) == [tag |-> "boolean", bool |-> b]

\* A reference to a class (the reflected design:type, or an entity class).
Class(n) == [tag |-> "class", name |-> n]

\* JavaScript truthiness: undefined, "" and false are falsy, objects are truthy.
Truthy(v) ==
    CASE v.tag = "undefined" -> FALSE
      [] v.tag = "string" -> v.str # ""
      [] v.tag = "boolean" -> v.bool
      [] OTHER -> TRUE

\* a || b and a && b, which return one of their operands.
Or(a, b) == IF Truthy(a) THEN a ELSE b

And(a, b) == IF Truthy(a) THEN b ELSE a

\* The outcome of a getter: a returned value or a thrown error.
Return(v) == [tag |-> "return", value |-> v]

\* Reading a property of undefined.
TypeError == [tag |-> "TypeError"]

\* new Error(`Inverse side was not found in the relation ${entity}#${property}`)
LookupError(entity, property) ==
    [tag |-> "Error", entity |-> entity, property |-> property]

NoCall == [accessor |-> "none", outcome |-> Undefined]

(***************************************************************************)
(* Bounds and input sets                                                   *)
(***************************************************************************)
\* How many names of NamePool an inverse-side specifier may mention.
MaxNames == 2

NamePool == <<"children", "category", "ghost", "owner", "parent", "inReplyTo">>

Names == {NamePool[i] : i \in 1..MaxNames}

Entities == {"Category", "Post"}

RelationTypes == {"one-to-one", "one-to-many", "many-to-one", "many-to-many"}

\* The property the relation under construction is declared on.
PropertyNames == {"owner"}

\* Reflected property types: the deferred-reference wrapper, a plain class.
PropertyTypes == {Class("Promise"), Class("Object")}

\* An option flag is absent, true or false.
Flags == {Undefined, Bool(TRUE), Bool(FALSE)}

\* An inverse-side specifier: a resolver t => t.<path> over the properties map.
Resolver(path) == [tag |-> "function", path |-> path]

\* PropertyTypeInFunction<any>, or nothing.
InverseSideSpecifiers ==
    {Undefined} \cup {Str(n) : n \in Names} \cup {Resolver(n) : n \in Names}

\* The options a tree-parent declaration is given: every combination of flags.
TreeOptions ==
    [cascadeInsert : Flags, cascadeUpdate : Flags, cascadeRemove : Flags,
     cascadeAll : Flags, nullable : Flags,
     oldColumnName : {Undefined}, onDelete : {Undefined}]

\* The option bundles the other relation declarations are given.
NoOptions ==
    [cascadeInsert |-> Undefined, cascadeUpdate |-> Undefined,
     cascadeRemove |-> Undefined, cascadeAll |-> Undefined, nullable |-> Undefined,
     oldColumnName |-> Undefined, onDelete |-> Undefined]

OptionBundles ==
    { NoOptions,
      [NoOptions EXCEPT !.cascadeInsert = Bool(TRUE), !.cascadeRemove = Bool(FALSE),
                        !.nullable = Bool(FALSE),
                        !.oldColumnName = Str("old_owner"),
                        !.onDelete = Str("CASCADE")] }

\* Join-column descriptors: none, or a descriptor with or without a name and
\* with or without a (named) referenced column.
JoinColumn(name, referencedColumn) ==
    [tag |-> "joinColumn", name |-> name, referencedColumn |-> referencedColumn]

Column(name) == [tag |-> "column", name |-> name]

JoinColumns ==
    { Undefined,
      JoinColumn(Undefined, Undefined),
      JoinColumn(Str("owner_id"), Column(Undefined)),
      JoinColumn(Str("owner_id"), Column(Str("code"))) }

JoinTables == {Undefined, [tag |-> "joinTable"]}

(***************************************************************************)
(* The entity metadata the relation is wired into                          *)
(***************************************************************************)
\* An EntityMetadata, as a reference.
Entity(e) == [tag |-> "entity", name |-> e]

\* A relation of an entity, as a reference.
RelationRef(entity, propertyName) ==
    [tag |-> "relation", entity |-> entity, propertyName |-> propertyName]

\* The relations the two entities hold apart from the one under construction:
\* Category is a tree with both tree relations; Post has a tree parent, no
\* tree children, and a plain relation to Category.
ContextRelations ==
    << [target |-> "Category", propertyName |-> "parent",
        isTreeParent |-> TRUE, isTreeChildren |-> FALSE],
       [target |-> "Category", propertyName |-> "children",
        isTreeParent |-> FALSE, isTreeChildren |-> TRUE],
       [target |-> "Post", propertyName |-> "inReplyTo",
        isTreeParent |-> TRUE, isTreeChildren |-> FALSE],
       [target |-> "Post", propertyName |-> "category",
        isTreeParent |-> FALSE, isTreeChildren |-> FALSE] >>

\* EntityMetadata.primaryColumn.propertyName
PrimaryColumnPropertyName(e) == IF e = "Category" THEN "id" ELSE "slug"

\* EntityMetadata.relations: the context relations of the entity, then the
\* relation r when it is wired to the entity.
EntityRelations(e, r) ==
    SelectSeq(ContextRelations, LAMBDA c : c.target = e)
    \o (IF r.entityMetadata = Entity(e)
        THEN << [target |-> e, propertyName |-> r.propertyName,
                 isTreeParent |-> Truthy(r.isTreeParent),
                 isTreeChildren |-> Truthy(r.isTreeChildren)] >>
        ELSE << >>)

\* Array.prototype.find: the first relation of rs among the indices hits, as a
\* reference, or undefined when there is none.
FindFirst(rs, hits) ==
    IF hits = {} THEN Undefined
    ELSE LET first == CHOOSE i \in hits : \A j \in hits : i <= j
         IN  RelationRef(rs[first].target, rs[first].propertyName)

\* EntityMetadata.treeParentRelation / treeChildrenRelation (at most one each).
TreeParentRelation(e, r) ==
    LET rs == EntityRelations(e, r)
    IN  FindFirst(rs, {i \in 1..Len(rs) : rs[i].isTreeParent})

TreeChildrenRelation(e, r) ==
    LET rs == EntityRelations(e, r)
    IN  FindFirst(rs, {i \in 1..Len(rs) : rs[i].isTreeChildren})

\* EntityMetadata.findRelationWithPropertyName(name)
FindRelationWithPropertyName(e, r, name) ==
    LET rs == EntityRelations(e, r)
    IN  FindFirst(rs, {i \in 1..Len(rs) : Str(rs[i].propertyName) = name})

\* EntityMetadata.hasRelationWithPropertyName(name)
HasRelationWithPropertyName(e, r, name) ==
    LET rs == EntityRelations(e, r)
    IN  \E i \in 1..Len(rs) : Str(rs[i].propertyName) = name

\* EntityMetadata.createPropertiesMap(): every declared property of the entity
\* (its primary column and its relations), each mapped to its own name.
CreatePropertiesMap(e, r) ==
    LET rs == EntityRelations(e, r)
        props == {PrimaryColumnPropertyName(e)} \cup {rs[i].propertyName : i \in 1..Len(rs)}
    IN  [p \in props |-> Str(p)]

\* NamingStrategy.relationName / relationNameCustomized: an external transform,
\* kept symbolic.
RelationName(propertyName) ==
    [tag |-> "columnName", strategy |-> "relationName", of |-> propertyName]

RelationNameCustomized(customName) ==
    [tag |-> "columnName", strategy |-> "relationNameCustomized", of |-> customName]

(***************************************************************************)
(* Declaration: TreeParent.ts, and the other relation decorators           *)
(***************************************************************************)
\* The RelationMetadataArgs the TreeParent decorator builds for a property of
\* class target, given its options (possibly none) and the reflected type.
TreeParentArgs(target, propertyName, options, reflectedType) ==
    [isTreeParent |-> Bool(TRUE),
     isTreeChildren |-> Undefined,
     target |-> target,
     propertyName |-> propertyName,
     propertyType |-> reflectedType,
     relationType |-> "many-to-one",
     type |-> target,
     inverseSideProperty |-> Undefined,
     options |-> IF options = Undefined THEN NoOptions ELSE options]

\* @TreeParent(options) on target.propertyName: the args go to the storage.
TreeParent(target, propertyName, options, reflectedType) ==
    /\ pc = "gather"
    /\ args' = TreeParentArgs(target, propertyName, options, reflectedType)
    /\ pc' = "declared"
    /\ UNCHANGED <<rel, result>>

\* Any other relation declaration reaching the storage: RelationMetadataArgs
\* of any kind, with any specifier and tree markers.
Declare(a) ==
    /\ pc = "gather"
    /\ args' = a
    /\ pc' = "declared"
    /\ UNCHANGED <<rel, result>>

\* A tree parent can be only a many-to-one relation and tree children only a
\* one-to-many relation, so a relation carries at most one of the markers.
RelationArgs ==
    { a \in [isTreeParent : {Undefined, Bool(TRUE)},
             isTreeChildren : {Undefined, Bool(TRUE)},
             target : Entities,
             propertyName : PropertyNames,
             propertyType : PropertyTypes \cup {Undefined},
             relationType : RelationTypes,
             type : Entities,
             inverseSideProperty : InverseSideSpecifiers,
             options : OptionBundles] :
        /\ Truthy(a.isTreeParent) => a.relationType = "many-to-one"
        /\ Truthy(a.isTreeChildren) => a.relationType = "one-to-many" }

(***************************************************************************)
(* Construction: RelationMetadata.constructor                              *)
(***************************************************************************)
\* Faulty variant: the blanket cascadeAll option is not expanded into the flag.
CascadeFlag_OwnOnly(requested, cascadeAll) ==
    IF Truthy(requested) THEN Bool(TRUE) ELSE Undefined

\* if (requested || cascadeAll) this.isCascadeX = true;  (else left unset)
CascadeFlag(requested, cascadeAll) ==
    IF Truthy(Or(requested, cascadeAll)) THEN Bool(TRUE) ELSE Undefined

\* readonly isNullable = true; if (options.nullable) this.isNullable = options.nullable;
Nullable(nullable) == IF Truthy(nullable) THEN nullable ELSE Bool(TRUE)

\* if (args.x) this.x = args.x;  for a field with no initializer
CopyIfSet(v) == IF Truthy(v) THEN v ELSE Undefined

\* if (args.isTreeX) this.isTreeX = true;  over the initializer false
TreeFlag(v) == IF Truthy(v) THEN Bool(TRUE) ELSE Bool(FALSE)

\* new RelationMetadata(a), before any wiring.
RelationMetadata(a) ==
    [target |-> a.target,
     propertyName |-> a.propertyName,
     relationType |-> a.relationType,
     priv_inverseSideProperty |-> CopyIfSet(a.inverseSideProperty),
     propertyType |-> CopyIfSet(a.propertyType),
     isCascadeInsert |-> CascadeFlag(a.options.cascadeInsert, a.options.cascadeAll),
     isCascadeUpdate |-> CascadeFlag(a.options.cascadeUpdate, a.options.cascadeAll),
     isCascadeRemove |-> CascadeFlag(a.options.cascadeRemove, a.options.cascadeAll),
     oldColumnName |-> CopyIfSet(a.options.oldColumnName),
     isNullable |-> Nullable(a.options.nullable),
     onDelete |-> CopyIfSet(a.options.onDelete),
     isTreeParent |-> TreeFlag(a.isTreeParent),
     isTreeChildren |-> TreeFlag(a.isTreeChildren),
     priv_type |-> a.type,
     entityMetadata |-> Undefined,
     inverseEntityMetadata |-> Undefined,
     junctionEntityMetadata |-> Undefined,
     joinTable |-> Undefined,
     joinColumn |-> Undefined]

Construct ==
    /\ pc = "declared"
    /\ rel' = RelationMetadata(args)
    /\ pc' = "constructed"
    /\ UNCHANGED <<args, result>>

(***************************************************************************)
(* Wiring: the public fields set once every entity metadata is known       *)
(***************************************************************************)
\* The relation r with its owning, related and junction entity and its join
\* descriptors attached.
Wired(r, joinColumn, joinTable) ==
    [r EXCEPT !.entityMetadata = Entity(r.target),
              !.inverseEntityMetadata = Entity(r.priv_type),
              !.junctionEntityMetadata =
                  IF r.relationType = "many-to-many" /\ Truthy(joinTable)
                  THEN Entity("junction") ELSE Undefined,
              !.joinTable = joinTable,
              !.joinColumn = joinColumn]

Wire(joinColumn, joinTable) ==
    /\ pc = "constructed"
    /\ rel' = Wired(rel, joinColumn, joinTable)
    /\ pc' = "wired"
    /\ UNCHANGED <<args, result>>

(***************************************************************************)
(* Accessors of a wired relation: each getter's outcome                    *)
(***************************************************************************)
\* get name()
Name(r) ==
    IF Truthy(r.joinColumn) /\ Truthy(r.joinColumn.name)
    THEN Return(RelationNameCustomized(r.joinColumn.name.str))
    ELSE Return(RelationName(r.propertyName))

\* Faulty variant: the fallback reads the owning entity's primary column.
ReferencedColumnName_OwnPrimary(r) ==
    IF /\ Truthy(r.joinColumn)
       /\ Truthy(r.joinColumn.referencedColumn)
       /\ Truthy(r.joinColumn.referencedColumn.name)
    THEN Return(r.joinColumn.referencedColumn.name)
    ELSE Return(Str(PrimaryColumnPropertyName(r.entityMetadata.name)))

\* get referencedColumnName()
ReferencedColumnName(r) ==
    IF /\ Truthy(r.joinColumn)
       /\ Truthy(r.joinColumn.referencedColumn)
       /\ Truthy(r.joinColumn.referencedColumn.name)
    THEN Return(r.joinColumn.referencedColumn.name)
    ELSE Return(Str(PrimaryColumnPropertyName(r.inverseEntityMetadata.name)))

\* get type(): the class the declaration's type function returns
Type(r) == Return(Class(r.priv_type))

\* String.prototype.toLowerCase on the class names in use
ToLowerCase(s) ==
    CASE s = "Promise" -> "promise"
      [] s = "Object" -> "object"
      [] OTHER -> s

\* get isLazy()
IsLazy(r) ==
    IF ~Truthy(r.propertyType) THEN Return(r.propertyType)
    ELSE IF ~Truthy(Str(r.propertyType.name)) THEN Return(Str(r.propertyType.name))
    ELSE Return(Bool(ToLowerCase(r.propertyType.name) = "promise"))

\* get isOneToOne(), isOneToMany(), isManyToOne(), isManyToMany()
IsOneToOne(r) == r.relationType = "one-to-one"

IsOneToMany(r) == r.relationType = "one-to-many"

IsManyToOne(r) == r.relationType = "many-to-one"

IsManyToMany(r) == r.relationType = "many-to-many"

\* Faulty variant: an attached join column makes any kind of relation owning.
IsOwning_AnyJoinColumn(r) ==
    Return(Or(Or(Bool(IsManyToOne(r)),
                 And(Bool(IsManyToMany(r)), r.joinTable)),
              r.joinColumn))

\* get isOwning(): the value of the || chain, an operand of it
IsOwning(r) ==
    Return(Or(Or(Bool(IsManyToOne(r)),
                 And(Bool(IsManyToMany(r)), r.joinTable)),
              And(Bool(IsOneToOne(r)), r.joinColumn)))

\* Faulty variant: the properties map is built from the owning entity.
ComputeInverseSide_OwnerMap(r, inverseSide) ==
    LET ownerEntityPropertiesMap == CreatePropertiesMap(r.entityMetadata.name, r)
    IN  CASE inverseSide.tag = "function" ->
                 Return(IF inverseSide.path \in DOMAIN ownerEntityPropertiesMap
                        THEN ownerEntityPropertiesMap[inverseSide.path]
                        ELSE Undefined)
          [] inverseSide.tag = "string" -> Return(inverseSide)
          [] OTHER -> Return(Str(""))

\* private computeInverseSide(inverseSide)
ComputeInverseSide(r, inverseSide) ==
    LET ownerEntityPropertiesMap == CreatePropertiesMap(r.inverseEntityMetadata.name, r)
    IN  CASE inverseSide.tag = "function" ->
                 Return(IF inverseSide.path \in DOMAIN ownerEntityPropertiesMap
                        THEN ownerEntityPropertiesMap[inverseSide.path]
                        ELSE Undefined)
          [] inverseSide.tag = "string" -> Return(inverseSide)
          [] OTHER -> Return(Str(""))

\* x.propertyName for a relation reference x that may be undefined
PropertyNameOf(x) ==
    IF x.tag = "undefined" THEN TypeError ELSE Return(Str(x.propertyName))

\* Faulty variant: the tree sibling is looked up on the related entity.
InverseSideProperty_Related(r) ==
    IF Truthy(r.priv_inverseSideProperty)
    THEN ComputeInverseSide(r, r.priv_inverseSideProperty)
    ELSE IF Truthy(r.isTreeParent)
    THEN PropertyNameOf(TreeChildrenRelation(r.inverseEntityMetadata.name, r))
    ELSE IF Truthy(r.isTreeChildren)
    THEN PropertyNameOf(TreeParentRelation(r.inverseEntityMetadata.name, r))
    ELSE Return(Str(""))

\* get inverseSideProperty()
InverseSideProperty(r) ==
    IF Truthy(r.priv_inverseSideProperty)
    THEN ComputeInverseSide(r, r.priv_inverseSideProperty)
    ELSE IF Truthy(r.isTreeParent)
    THEN PropertyNameOf(TreeChildrenRelation(r.entityMetadata.name, r))
    ELSE IF Truthy(r.isTreeChildren)
    THEN PropertyNameOf(TreeParentRelation(r.entityMetadata.name, r))
    ELSE Return(Str(""))

\* Faulty variant: the relation is looked up on the owning entity.
HasInverseSide_Owner(r) ==
    IF ~Truthy(r.inverseEntityMetadata) THEN Return(r.inverseEntityMetadata)
    ELSE LET p == InverseSideProperty(r)
         IN  IF p.tag # "return" THEN p
             ELSE Return(Bool(HasRelationWithPropertyName(
                                  r.entityMetadata.name, r, p.value)))

\* get hasInverseSide()
HasInverseSide(r) ==
    IF ~Truthy(r.inverseEntityMetadata) THEN Return(r.inverseEntityMetadata)
    ELSE LET p == InverseSideProperty(r)
         IN  IF p.tag # "return" THEN p
             ELSE Return(Bool(HasRelationWithPropertyName(
                                  r.inverseEntityMetadata.name, r, p.value)))

\* Faulty variant: the error names the related entity instead of the owning one.
InverseRelation_RelatedName(r) ==
    LET p == InverseSideProperty(r)
    IN  IF p.tag # "return" THEN p
        ELSE LET relation == FindRelationWithPropertyName(
                                 r.inverseEntityMetadata.name, r, p.value)
             IN  IF ~Truthy(relation)
                 THEN LookupError(r.inverseEntityMetadata.name, p.value)
                 ELSE Return(relation)

\* get inverseRelation()
InverseRelation(r) ==
    LET p == InverseSideProperty(r)
    IN  IF p.tag # "return" THEN p
        ELSE LET relation == FindRelationWithPropertyName(
                                 r.inverseEntityMetadata.name, r, p.value)
             IN  IF ~Truthy(relation)
                 THEN LookupError(r.entityMetadata.name, p.value)
                 ELSE Return(relation)

(***************************************************************************)
(* Reading the wired relation                                              *)
(***************************************************************************)
Called(accessor, outcome) == [accessor |-> accessor, outcome |-> outcome]

GetName ==
    /\ pc = "wired"
    /\ result' = Called("name", Name(rel))
    /\ UNCHANGED <<pc, args, rel>>

GetReferencedColumnName ==
    /\ pc = "wired"
    /\ result' = Called("referencedColumnName", ReferencedColumnName(rel))
    /\ UNCHANGED <<pc, args, rel>>

GetType ==
    /\ pc = "wired"
    /\ result' = Called("type", Type(rel))
    /\ UNCHANGED <<pc, args, rel>>

GetIsLazy ==
    /\ pc = "wired"
    /\ result' = Called("isLazy", IsLazy(rel))
    /\ UNCHANGED <<pc, args, rel>>

GetIsOwning ==
    /\ pc = "wired"
    /\ result' = Called("isOwning", IsOwning(rel))
    /\ UNCHANGED <<pc, args, rel>>

GetHasInverseSide ==
    /\ pc = "wired"
    /\ result' = Called("hasInverseSide", HasInverseSide(rel))
    /\ UNCHANGED <<pc, args, rel>>

\* Faulty variant: the getter stores the name it resolved in place of the specifier.
GetInverseSideProperty_Memoizing ==
    /\ pc = "wired"
    /\ result' = Called("inverseSideProperty", InverseSideProperty(rel))
    /\ rel' = [rel EXCEPT !.priv_inverseSideProperty =
                   IF InverseSideProperty(rel).tag = "return"
                   THEN InverseSideProperty(rel).value ELSE @]
    /\ UNCHANGED <<pc, args>>

GetInverseSideProperty ==
    /\ pc = "wired"
    /\ result' = Called("inverseSideProperty", InverseSideProperty(rel))
    /\ UNCHANGED <<pc, args, rel>>

GetInverseRelation ==
    /\ pc = "wired"
    /\ result' = Called("inverseRelation", InverseRelation(rel))
    /\ UNCHANGED <<pc, args, rel>>

(***************************************************************************)
(* Specification                                                           *)
(***************************************************************************)
Init ==
    /\ pc = "gather"
    /\ args = Undefined
    /\ rel = Undefined
    /\ result = NoCall

DeclareTreeParent ==
    \E target \in Entities, propertyName \in PropertyNames,
       options \in TreeOptions \cup {Undefined}, reflectedType \in PropertyTypes :
        TreeParent(target, propertyName, options, reflectedType)

DeclareRelation == \E a \in RelationArgs : Declare(a)

WireRelation ==
    \E joinColumn \in JoinColumns, joinTable \in JoinTables :
        Wire(joinColumn, joinTable)

Next ==
    \/ DeclareTreeParent
    \/ DeclareRelation
    \/ Construct
    \/ WireRelation
    \/ GetName
    \/ GetReferencedColumnName
    \/ GetType
    \/ GetIsLazy
    \/ GetIsOwning
    \/ GetHasInverseSide
    \/ GetInverseSideProperty
    \/ GetInverseRelation

Spec == Init /\ [][Next]_vars

(***************************************************************************)
(* Properties                                                              *)
(***************************************************************************)
Built == pc \in {"constructed", "wired"}

\* The accessor acc has been read on the wired relation.
Read(acc) == pc = "wired" /\ result.accessor = acc

NoSpecifier == args.inverseSideProperty = Undefined

\* The property names of the relations the entity e holds.
RelationNamesOf(e) ==
    {EntityRelations(e, rel)[i].propertyName : i \in 1..Len(EntityRelations(e, rel))}

\* C1: isOwning is decided by kind alone: many-to-one always owns, one-to-many
\* never owns (whatever descriptors are attached), many-to-many owns iff a
\* join table is attached, one-to-one owns iff a join column is attached.
C1_IsOwningByKind ==
    Read("isOwning") =>
        /\ result.outcome.tag = "return"
        /\ Truthy(result.outcome.value) <=>
               CASE rel.relationType = "many-to-one" -> TRUE
                 [] rel.relationType = "one-to-many" -> FALSE
                 [] rel.relationType = "many-to-many" -> rel.joinTable # Undefined
                 [] rel.relationType = "one-to-one" -> rel.joinColumn # Undefined

C1_Witness ==
    /\ Read("isOwning")
    /\ rel.relationType = "one-to-many"
    /\ rel.joinColumn # Undefined
    /\ rel.joinTable # Undefined
    /\ ~Truthy(result.outcome.value)

\* C2: with an inverse-side specifier declared, inverseSideProperty is the
\* literal name itself, or the resolver's pick from the properties of the
\* related entity (the class the declaration's type names), whatever the tree
\* markers say.
C2_SpecifierDecides ==
    (Read("inverseSideProperty") /\ ~NoSpecifier) =>
        LET spec == args.inverseSideProperty
            related == {PrimaryColumnPropertyName(args.type)} \cup RelationNamesOf(args.type)
        IN  IF spec.tag = "string"
            THEN result.outcome = Return(spec)
            ELSE result.outcome =
                     Return(IF spec.path \in related THEN Str(spec.path) ELSE Undefined)

C2_Witness ==
    /\ Read("inverseSideProperty")
    /\ args.inverseSideProperty = Resolver("children")
    /\ args.target = "Post"
    /\ args.type = "Category"
    /\ Truthy(rel.isTreeParent)
    /\ result.outcome = Return(Str("children"))

\* C3 as claimed: with no specifier, a returned inverseSideProperty is the name
\* of the RELATED entity's tree-children relation for a tree parent, of its
\* tree-parent relation for tree children, and "" otherwise.
C3_RelatedEntityTreeSibling ==
    (Read("inverseSideProperty") /\ NoSpecifier /\ result.outcome.tag = "return") =>
        IF Truthy(rel.isTreeParent)
        THEN TreeChildrenRelation(args.type, rel) # Undefined =>
                 result.outcome.value = Str(TreeChildrenRelation(args.type, rel).propertyName)
        ELSE IF Truthy(rel.isTreeChildren)
        THEN TreeParentRelation(args.type, rel) # Undefined =>
                 result.outcome.value = Str(TreeParentRelation(args.type, rel).propertyName)
        ELSE result.outcome.value = Str("")

\* C3 amended: with no specifier, inverseSideProperty is the name of the OWNING
\* entity's tree-children relation for a tree parent, of its tree-parent
\* relation for tree children (whenever the owning entity designates that
\* relation), and "" otherwise.
C3_OwningEntityTreeSibling ==
    (Read("inverseSideProperty") /\ NoSpecifier) =>
        IF Truthy(rel.isTreeParent)
        THEN TreeChildrenRelation(args.target, rel) # Undefined =>
                 result.outcome =
                     Return(Str(TreeChildrenRelation(args.target, rel).propertyName))
        ELSE IF Truthy(rel.isTreeChildren)
        THEN TreeParentRelation(args.target, rel) # Undefined =>
                 result.outcome =
                     Return(Str(TreeParentRelation(args.target, rel).propertyName))
        ELSE result.outcome = Return(Str(""))

C3_Witness ==
    /\ Read("inverseSideProperty")
    /\ NoSpecifier
    /\ Truthy(rel.isTreeChildren)
    /\ args.target = "Post"
    /\ args.type = "Category"
    /\ result.outcome = Return(Str("inReplyTo"))

\* C4: a tree relation with no specifier whose entity lacks the sibling tree
\* relation reads "" from inverseSideProperty and false from hasInverseSide,
\* and no accessor but inverseRelation ever ends in an error.
C4_AbsenceNotError ==
    pc = "wired" =>
        /\ result.accessor \notin {"none", "inverseRelation"} =>
               result.outcome.tag = "return"
        /\ ( /\ NoSpecifier
             /\ \/ /\ Truthy(rel.isTreeParent)
                   /\ TreeChildrenRelation(args.target, rel) = Undefined
                \/ /\ ~Truthy(rel.isTreeParent)
                   /\ Truthy(rel.isTreeChildren)
                   /\ TreeParentRelation(args.target, rel) = Undefined )
           => /\ result.accessor = "inverseSideProperty" =>
                     result.outcome = Return(Str(""))
              /\ result.accessor = "hasInverseSide" =>
                     result.outcome = Return(Bool(FALSE))

\* C5: whenever inverseSideProperty yields a value, inverseRelation returns the
\* related entity's relation of that name if there is one, and otherwise fails
\* with the lookup error naming the owning entity and that value.
C5_InverseRelationLookup ==
    (Read("inverseRelation") /\ InverseSideProperty(rel).tag = "return") =>
        LET v == InverseSideProperty(rel).value
        IN  IF \E n \in RelationNamesOf(args.type) : Str(n) = v
            THEN /\ result.outcome.tag = "return"
                 /\ result.outcome.value = RelationRef(args.type, v.str)
            ELSE result.outcome = LookupError(args.target, v)

C5_Witness ==
    /\ Read("inverseRelation")
    /\ args.target = "Post"
    /\ args.type = "Category"
    /\ result.outcome = LookupError("Post", Str("category"))

\* C6: whenever inverseSideProperty yields a value, hasInverseSide is true iff
\* the related entity has a relation of that name; it is true exactly when
\* inverseRelation returns; and with neither specifier nor tree markers
\* inverseSideProperty is "" and hasInverseSide is false.
C6_HasInverseSide ==
    pc = "wired" =>
        /\ (result.accessor = "hasInverseSide" /\ InverseSideProperty(rel).tag = "return") =>
               result.outcome =
                   Return(Bool(\E n \in RelationNamesOf(args.type) :
                                   Str(n) = InverseSideProperty(rel).value))
        /\ result.accessor = "hasInverseSide" =>
               (result.outcome = Return(Bool(TRUE)) <=> InverseRelation(rel).tag = "return")
        /\ result.accessor = "inverseRelation" =>
               (result.outcome.tag = "return" <=> HasInverseSide(rel) = Return(Bool(TRUE)))
        /\ (NoSpecifier /\ ~Truthy(rel.isTreeParent) /\ ~Truthy(rel.isTreeChildren)) =>
               /\ result.accessor = "inverseSideProperty" => result.outcome = Return(Str(""))
               /\ result.accessor = "hasInverseSide" => result.outcome = Return(Bool(FALSE))

C6_Witness ==
    /\ Read("hasInverseSide")
    /\ args.target = "Post"
    /\ args.type = "Category"
    /\ args.inverseSideProperty = Str("children")
    /\ result.outcome = Return(Bool(TRUE))

\* C7: the nullable attribute is true when the options do not set nullable and
\* is the declared value (false for false, true for true) when they do.
C7_NullableAsDeclared ==
    Built =>
        rel.isNullable =
            (IF args.options.nullable = Undefined THEN Bool(TRUE) ELSE args.options.nullable)

\* C8: from construction on, through wiring and every accessor read, each
\* cascade flag is true iff its own option or cascadeAll was requested.
C8_CascadeFlags ==
    Built =>
        LET all == args.options.cascadeAll = Bool(TRUE)
        IN  /\ rel.isCascadeInsert = Bool(TRUE) <=>
                   (args.options.cascadeInsert = Bool(TRUE) \/ all)
            /\ rel.isCascadeUpdate = Bool(TRUE) <=>
                   (args.options.cascadeUpdate = Bool(TRUE) \/ all)
            /\ rel.isCascadeRemove = Bool(TRUE) <=>
                   (args.options.cascadeRemove = Bool(TRUE) \/ all)

C8_Witness ==
    /\ pc = "wired"
    /\ result.accessor = "inverseSideProperty"
    /\ args.options.cascadeAll = Bool(TRUE)
    /\ args.options.cascadeInsert = Bool(FALSE)
    /\ args.options.cascadeUpdate = Undefined
    /\ rel.isCascadeInsert = Bool(TRUE)
    /\ rel.isCascadeUpdate = Bool(TRUE)
    /\ rel.isCascadeRemove = Bool(TRUE)

\* C9: referencedColumnName is the name of the column the join column
\* references when there is a join column referencing a named column, and the
\* related entity's primary-key property name in every other case.
C9_ReferencedColumnName ==
    Read("referencedColumnName") =>
        LET jc == rel.joinColumn
            named == /\ jc # Undefined
                     /\ jc.referencedColumn # Undefined
                     /\ jc.referencedColumn.name # Undefined
        IN  result.outcome =
                Return(IF named THEN jc.referencedColumn.name
                       ELSE Str(PrimaryColumnPropertyName(args.type)))

C9_Witness ==
    /\ Read("referencedColumnName")
    /\ rel.joinColumn = JoinColumn(Str("owner_id"), Column(Undefined))
    /\ args.target = "Category"
    /\ args.type = "Post"
    /\ result.outcome = Return(Str("slug"))

\* C10: once the relation is wired, no step changes the relation, its
\* declaration or the phase, and reading the accessor read last gives the
\* same outcome again.
C10_AccessorsArePure ==
    [][pc = "wired" =>
           /\ rel' = rel
           /\ args' = args
           /\ pc' = pc
           /\ result'.accessor = result.accessor => result' = result]_vars

C10_Witness ==
    /\ Read("inverseRelation")
    /\ result.outcome.tag = "Error"
    /\ rel = Wired(RelationMetadata(args), rel.joinColumn, rel.joinTable)

====
